---- MODULE Spec2Model ----
(***************************************************************************)
(* Model of generation.py: a one-shot script that resolves a model,        *)
(* loads a line-delimited JSON dataset, iterates over it in batches,       *)
(* generates one summary per document, post-processes the decoded text and *)
(* writes one line per record to "<label>.<dataset>.predictions".          *)
(*                                                                         *)
(* Text is modelled as a sequence of one-string atoms: "/", ".", "<", "n", *)
(* ">" and " " are single characters, every other atom is a run of         *)
(* characters that contains none of them.                                  *)
(***************************************************************************)
EXTENDS Integers, Sequences, FiniteSets, TLC

\* ------------------------------------------------------------- bounds
\* longest dataset file (lines) of the data specification
MaxRecords == 10
\* longest decoded string of the post-processing specification
MaxLen == 6
\* longest data path (atoms) of the naming specification
MaxPath == 5
\* largest batch size and longest dataset of the batching specification
MaxBatch == 4
MaxBatchRecords == 9

\* ------------------------------------------------------------- constants
BATCH_SIZE == 8

BART_CNNDM_CHECKPOINT == <<"facebook", "/", "bart-large-cnn">>
BART_XSUM_CHECKPOINT == <<"facebook", "/", "bart-large-xsum">>
PEGASUS_CNNDM_CHECKPOINT == <<"google", "/", "pegasus-cnn_dailymail">>
PEGASUS_XSUM_CHECKPOINT == <<"google", "/", "pegasus-xsum">>
PEGASUS_NEWSROOM_CHECKPOINT == <<"google", "/", "pegasus-newsroom">>
PEGASUS_MULTINEWS_CHECKPOINT == <<"google", "/", "pegasus-multi_news">>

MODEL_CHECKPOINTS ==
    (<<"bart-xsum">> :> BART_XSUM_CHECKPOINT)
    @@ (<<"bart-cnndm">> :> BART_CNNDM_CHECKPOINT)
    @@ (<<"pegasus-xsum">> :> PEGASUS_XSUM_CHECKPOINT)
    @@ (<<"pegasus-cnndm">> :> PEGASUS_CNNDM_CHECKPOINT)
    @@ (<<"pegasus-newsroom">> :> PEGASUS_NEWSROOM_CHECKPOINT)
    @@ (<<"pegasus-multinews">> :> PEGASUS_MULTINEWS_CHECKPOINT)

\* argparse's default for an option that was not given
None == <<"<None>">>

\* the marker  '<n>'  that postprocess_data replaces
MARKER == <<"<", "n", ">">>

\* ------------------------------------------------------------- errors
NoError == [type |-> "", msg |-> ""]
ErrorOf(t, m) == [type |-> t, msg |-> m]

\* ------------------------------------------------------------- pure functions
\* Python truthiness of an optional string: None and '' are false
Truthy(s) == s # None /\ s # <<>>

\* lines 74-78: the error the two checks raise, NoError when both pass
ValidateErrorSameMsg(model, mnop) ==
    IF ~(Truthy(model) \/ Truthy(mnop))
    THEN ErrorOf("ValueError", "Specify model or model_name_or_path but not both")
    ELSE IF Truthy(model) /\ Truthy(mnop)
    THEN ErrorOf("ValueError", "Specify model or model_name_or_path but not both")
    ELSE NoError

ValidateError(model, mnop) ==
    IF ~(Truthy(model) \/ Truthy(mnop))
    THEN ErrorOf("ValueError", "Model is required")
    ELSE IF Truthy(model) /\ Truthy(mnop)
    THEN ErrorOf("ValueError", "Specify model or model_name_or_path but not both")
    ELSE NoError

\* str.replace(old, new): left to right, non-overlapping occurrences
RECURSIVE StrReplaceFirst(_, _, _)
StrReplaceFirst(s, old, new) ==
    IF Len(s) < Len(old) THEN s
    ELSE IF SubSeq(s, 1, Len(old)) = old
    THEN new \o SubSeq(s, Len(old) + 1, Len(s))
    ELSE <<Head(s)>> \o StrReplaceFirst(Tail(s), old, new)

RECURSIVE StrReplace(_, _, _)
StrReplace(s, old, new) ==
    IF Len(s) < Len(old) THEN s
    ELSE IF SubSeq(s, 1, Len(old)) = old
    THEN new \o StrReplace(SubSeq(s, Len(old) + 1, Len(s)), old, new)
    ELSE <<Head(s)>> \o StrReplace(Tail(s), old, new)

\* lines 58-64
postprocess_dataFirst(decoded) ==
    [i \in 1..Len(decoded) |-> StrReplaceFirst(decoded[i], MARKER, <<" ">>)]

postprocess_dataStrip(decoded) ==
    [i \in 1..Len(decoded) |-> StrReplace(decoded[i], MARKER, <<>>)]

postprocess_data(decoded) ==
    [i \in 1..Len(decoded) |-> StrReplace(decoded[i], MARKER, <<" ">>)]

\* str.rfind of a single character, 1-based, 0 when absent
RFind(s, c) ==
    IF \E i \in 1..Len(s) : s[i] = c
    THEN CHOOSE i \in 1..Len(s) : s[i] = c /\ \A j \in (i + 1)..Len(s) : s[j] # c
    ELSE 0

\* os.path.basename (posixpath): what follows the last '/'
basename(p) == SubSeq(p, RFind(p, "/") + 1, Len(p))

\* os.path.splitext(p)[0] (genericpath._splitext): cut at the last dot that
\* follows the last '/', unless only dots precede it in the final component
splitext0(p) ==
    LET sepIndex == RFind(p, "/")
        dotIndex == RFind(p, ".")
    IN  IF dotIndex > sepIndex
           /\ \E i \in (sepIndex + 1)..(dotIndex - 1) : p[i] # "."
        THEN SubSeq(p, 1, dotIndex - 1)
        ELSE p

\* lines 95-96
FileName(label, data_path) ==
    label \o <<".">> \o splitext0(basename(data_path)) \o <<".", "predictions">>

\* json.loads of one line: a line is the text of an object (ok) or malformed
json_loads_ok(line) == line.ok

\* default_collate of a list of dicts: the keys of the first sample, each
\* looked up in every sample (KeyError when one lacks it)
CollateFails(samples) ==
    \E j \in 1..Len(samples) : \E k \in DOMAIN samples[1] : k \notin DOMAIN samples[j]

CollateReversed(samples) ==
    [k \in DOMAIN samples[1] |->
        [j \in 1..Len(samples) |-> samples[Len(samples) + 1 - j][k]]]

Collate(samples) ==
    [k \in DOMAIN samples[1] |-> [j \in 1..Len(samples) |-> samples[j][k]]]

\* BatchSampler over a SequentialSampler, drop_last = False: the indices of
\* the batch that starts after `pos` records
BatchIndicesDropLast(n, size, pos) ==
    IF pos + size <= n THEN (pos + 1)..(pos + size) ELSE {}

BatchIndices(n, size, pos) ==
    (pos + 1)..(IF pos + size <= n THEN pos + size ELSE n)

\* line 86: the label of the output file for an explicit identifier
LabelOfPathRaw(mnop) == mnop

LabelOfPath(mnop) == StrReplace(mnop, <<"/">>, <<"-">>)

\* ------------------------------------------------------------- state
VARIABLES
    args,               \* the parsed command line: model, model_name_or_path, data_path
    input,              \* the file at data_path: exists, lines
    hub,                \* whether from_pretrained can load the identifier
    gen,                \* the model and tokenizer: document -> decoded summary
    batch_size,         \* the DataLoader's batch_size
    pc,                 \* position of the script
    error,              \* the uncaught exception that ended the run
    model_name_or_path, \* line 82 / 85
    file_model_name,    \* line 83 / 86
    modelLoaded,        \* lines 87-88 ran
    dataRead,           \* the data file has been opened (line 48)
    dataset,            \* JSONDataset.data
    filename,           \* line 96
    fd_out,             \* the output file is open
    disk,               \* the file named `filename` in the working directory
    disk0,              \* that file as it was before the run
    pos,                \* records the batch sampler has handed out
    raw_data,           \* the collated batch
    batch,              \* the documents handed to the tokenizer
    decoded,            \* line 104
    processed,          \* postprocess_data(decoded), line 105
    wi,                 \* next element of `processed` to write
    batches             \* history: the batches the sampler produced, in order

vars == <<args, input, hub, gen, batch_size, pc, error, model_name_or_path,
          file_model_name, modelLoaded, dataRead, dataset, filename, fd_out,
          disk, disk0, pos, raw_data, batch, decoded, processed, wi, batches>>

env == <<args, input, hub, gen, batch_size, disk0>>
loop == <<pos, raw_data, batch, decoded, processed, wi, batches>>

Raise(t, m) == pc' = "failed" /\ error' = ErrorOf(t, m)

\* ------------------------------------------------------------- actions
\* lines 74-78
Validate ==
    /\ pc = "validate"
    /\ LET e == ValidateError(args.model, args.model_name_or_path)
       IN  IF e # NoError
           THEN pc' = "failed" /\ error' = e
           ELSE pc' = "resolve" /\ error' = error
    /\ UNCHANGED <<env, loop, model_name_or_path, file_model_name, modelLoaded,
                   dataRead, dataset, filename, fd_out, disk>>

\* Resolve with a lookup that falls back to the alias itself
ResolveLenient ==
    /\ pc = "resolve"
    /\ IF Truthy(args.model)
       THEN /\ model_name_or_path' =
                  IF args.model \in DOMAIN MODEL_CHECKPOINTS
                  THEN MODEL_CHECKPOINTS[args.model] ELSE args.model
            /\ file_model_name' = args.model
            /\ pc' = "load" /\ error' = error
       ELSE IF args.model_name_or_path = None
            THEN /\ Raise("AttributeError", "replace")
                 /\ model_name_or_path' = None
                 /\ UNCHANGED file_model_name
            ELSE /\ model_name_or_path' = args.model_name_or_path
                 /\ file_model_name' = LabelOfPath(args.model_name_or_path)
                 /\ pc' = "load" /\ error' = error
    /\ UNCHANGED <<env, loop, modelLoaded, dataRead, dataset, filename, fd_out, disk>>

\* lines 81-86
Resolve ==
    /\ pc = "resolve"
    /\ IF Truthy(args.model)
       THEN IF args.model \in DOMAIN MODEL_CHECKPOINTS
            THEN /\ model_name_or_path' = MODEL_CHECKPOINTS[args.model]
                 /\ file_model_name' = args.model
                 /\ pc' = "load" /\ error' = error
            ELSE /\ Raise("KeyError", "alias")
                 /\ UNCHANGED <<model_name_or_path, file_model_name>>
       ELSE IF args.model_name_or_path = None
            THEN /\ Raise("AttributeError", "replace")
                 /\ model_name_or_path' = None
                 /\ UNCHANGED file_model_name
            ELSE /\ model_name_or_path' = args.model_name_or_path
                 /\ file_model_name' = LabelOfPath(args.model_name_or_path)
                 /\ pc' = "load" /\ error' = error
    /\ UNCHANGED <<env, loop, modelLoaded, dataRead, dataset, filename, fd_out, disk>>

\* lines 87-88: AutoModelForSeq2SeqLM / AutoTokenizer .from_pretrained
LoadModel ==
    /\ pc = "load"
    /\ IF hub
       THEN modelLoaded' = TRUE /\ pc' = "dataset" /\ error' = error
       ELSE modelLoaded' = modelLoaded /\ Raise("OSError", "from_pretrained")
    /\ UNCHANGED <<env, loop, model_name_or_path, file_model_name, dataRead,
                   dataset, filename, fd_out, disk>>

\* LoadDataset that drops the lines json.loads rejects
LoadDatasetSkipBad ==
    /\ pc = "dataset"
    /\ IF args.data_path = None
       THEN Raise("TypeError", "open") /\ UNCHANGED <<dataRead, dataset>>
       ELSE IF ~input.exists
       THEN Raise("FileNotFoundError", "open") /\ UNCHANGED <<dataRead, dataset>>
       ELSE /\ dataRead' = TRUE
            /\ dataset' = [i \in 1..Len(SelectSeq(input.lines, json_loads_ok)) |->
                               SelectSeq(input.lines, json_loads_ok)[i].obj]
            /\ pc' = "open_out" /\ error' = error
    /\ UNCHANGED <<env, loop, model_name_or_path, file_model_name, modelLoaded,
                   filename, fd_out, disk>>

\* lines 90-92 and 44-49: open the data file, parse every line, build the loader
LoadDataset ==
    /\ pc = "dataset"
    /\ IF args.data_path = None
       THEN Raise("TypeError", "open") /\ UNCHANGED <<dataRead, dataset>>
       ELSE IF ~input.exists
       THEN Raise("FileNotFoundError", "open") /\ UNCHANGED <<dataRead, dataset>>
       ELSE /\ dataRead' = TRUE
            /\ IF \E i \in 1..Len(input.lines) : ~json_loads_ok(input.lines[i])
               THEN Raise("JSONDecodeError", "json.loads") /\ UNCHANGED dataset
               ELSE /\ dataset' = [i \in 1..Len(input.lines) |-> input.lines[i].obj]
                    /\ pc' = "open_out" /\ error' = error
    /\ UNCHANGED <<env, loop, model_name_or_path, file_model_name, modelLoaded,
                   filename, fd_out, disk>>

\* lines 95-97: name the output file and open it for writing (truncating)
OpenOutput ==
    /\ pc = "open_out"
    /\ filename' = FileName(file_model_name, args.data_path)
    /\ fd_out' = TRUE
    /\ disk' = [exists |-> TRUE, lines |-> <<>>]
    /\ pc' = "fetch"
    /\ UNCHANGED <<env, loop, error, model_name_or_path, file_model_name,
                   modelLoaded, dataRead, dataset>>

\* line 101: the loader hands out the next collated batch, or ends the loop
FetchBatch ==
    /\ pc = "fetch"
    /\ LET idx == BatchIndices(Len(dataset), batch_size, pos)
           samples == [j \in 1..Cardinality(idx) |-> dataset[pos + j]]
       IN  IF idx = {}
           THEN /\ pc' = "done" /\ error' = error
                /\ UNCHANGED <<pos, raw_data, batches>>
           ELSE /\ pos' = pos + Cardinality(idx)
                /\ batches' = Append(batches, samples)
                /\ IF CollateFails(samples)
                   THEN Raise("KeyError", "default_collate") /\ UNCHANGED raw_data
                   ELSE /\ raw_data' = Collate(samples)
                        /\ pc' = "tokenize" /\ error' = error
    /\ UNCHANGED <<env, model_name_or_path, file_model_name, modelLoaded, dataRead,
                   dataset, filename, fd_out, disk, batch, decoded, processed, wi>>

\* Tokenize that skips a batch without documents and carries on
TokenizeSkip ==
    /\ pc = "tokenize"
    /\ IF "document" \in DOMAIN raw_data
       THEN batch' = raw_data["document"] /\ pc' = "generate" /\ error' = error
       ELSE batch' = batch /\ pc' = "fetch" /\ error' = error
    /\ UNCHANGED <<env, model_name_or_path, file_model_name, modelLoaded, dataRead,
                   dataset, filename, fd_out, disk, pos, raw_data, decoded,
                   processed, wi, batches>>

\* line 102: tokenizer(raw_data["document"], ...)
Tokenize ==
    /\ pc = "tokenize"
    /\ IF "document" \in DOMAIN raw_data
       THEN batch' = raw_data["document"] /\ pc' = "generate" /\ error' = error
       ELSE batch' = batch /\ Raise("KeyError", "document")
    /\ UNCHANGED <<env, model_name_or_path, file_model_name, modelLoaded, dataRead,
                   dataset, filename, fd_out, disk, pos, raw_data, decoded,
                   processed, wi, batches>>

\* lines 103-104: model.generate and tokenizer.batch_decode
Generate ==
    /\ pc = "generate"
    /\ decoded' = [i \in 1..Len(batch) |-> gen[batch[i]]]
    /\ pc' = "postprocess"
    /\ UNCHANGED <<env, error, model_name_or_path, file_model_name, modelLoaded,
                   dataRead, dataset, filename, fd_out, disk, pos, raw_data, batch,
                   processed, wi, batches>>

\* line 105: the list the for loop iterates over
Postprocess ==
    /\ pc = "postprocess"
    /\ processed' = postprocess_data(decoded)
    /\ wi' = 1
    /\ pc' = IF Len(decoded) = 0 THEN "fetch" ELSE "write"
    /\ UNCHANGED <<env, error, model_name_or_path, file_model_name, modelLoaded,
                   dataRead, dataset, filename, fd_out, disk, pos, raw_data, batch,
                   decoded, batches>>

\* line 106: fd_out.write(example + '\n')
WriteExample ==
    /\ pc = "write"
    /\ disk' = [disk EXCEPT !.lines = Append(@, processed[wi])]
    /\ wi' = wi + 1
    /\ pc' = IF wi = Len(processed) THEN "fetch" ELSE "write"
    /\ UNCHANGED <<env, error, model_name_or_path, file_model_name, modelLoaded,
                   dataRead, dataset, filename, fd_out, pos, raw_data, batch,
                   decoded, processed, batches>>

Next ==
    \/ Validate
    \/ Resolve
    \/ LoadModel
    \/ LoadDataset
    \/ OpenOutput
    \/ FetchBatch
    \/ Tokenize
    \/ Generate
    \/ Postprocess
    \/ WriteExample

\* ------------------------------------------------------------- inputs
\* the document of line i: distinct per line, or two documents alternating
DocAt(pattern, i) == IF pattern = "asc" THEN ToString(i) ELSE ToString(((i - 1) % 2) + 1)

\* one line of the data file: an object with a document, with a document and
\* an id, with an id only, or a malformed line
LineOf(kind, d) ==
    [ok |-> kind # "bad",
     obj |-> IF kind = "docid" THEN [document |-> d, id |-> "x"]
             ELSE IF kind = "id" THEN [id |-> "x"]
             ELSE [document |-> d]]

LineKinds == {"doc", "docid", "id", "bad"}

\* a file of n lines of kind `base`, except lines p1 and p2 (0: none)
FileOf(n, pattern, base, p1, k1, p2, k2) ==
    [i \in 1..n |-> LineOf(IF i = p1 THEN k1 ELSE IF i = p2 THEN k2 ELSE base,
                           DocAt(pattern, i))]

\* the stand-in model: the summary of document d, with one marker in it
Summary(d) == <<d, "<", "n", ">", "s">>

OldOutput == [exists |-> TRUE, lines |-> <<<<"old">>>>]
NoOutput == [exists |-> FALSE, lines |-> <<>>]

RECURSIVE StringsUpTo(_, _)
StringsUpTo(alphabet, n) ==
    IF n = 0 THEN {<<>>}
    ELSE LET shorter == StringsUpTo(alphabet, n - 1)
         IN  shorter \cup {Append(s, c) : s \in shorter, c \in alphabet}

Start(a, inp, h, g, b, d0) ==
    /\ args = a /\ input = inp /\ hub = h /\ gen = g /\ batch_size = b
    /\ disk0 = d0 /\ disk = d0
    /\ pc = "validate" /\ error = NoError
    /\ model_name_or_path = None /\ file_model_name = None
    /\ modelLoaded = FALSE /\ dataRead = FALSE /\ dataset = <<>>
    /\ filename = None /\ fd_out = FALSE
    /\ pos = 0 /\ raw_data = [document |-> <<>>] /\ batch = <<>>
    /\ decoded = <<>> /\ processed = <<>> /\ wi = 1 /\ batches = <<>>

ModelArgs == {None, <<>>, <<"bart-xsum">>, <<"pegasus-cnndm">>, <<"my-model">>}
PathArgs == {None, <<>>, <<"google", "/", "pegasus-xsum">>, <<".", "/", "out", "/", "ckpt">>}
DataPath == <<"data", "/", "xsum", ".", "jsonl">>
DefaultGen(n) == [d \in {ToString(i) : i \in 1..n} |-> Summary(d)]

\* every combination of the command-line options, over a few short files
Init ==
    \E m \in ModelArgs, p \in PathArgs, dp \in {None, DataPath},
       ex \in BOOLEAN, h \in BOOLEAN, d0 \in {NoOutput, OldOutput},
       f \in {FileOf(0, "asc", "doc", 0, "doc", 0, "doc"),
              FileOf(2, "asc", "doc", 0, "doc", 0, "doc"),
              FileOf(2, "asc", "doc", 2, "bad", 0, "doc"),
              FileOf(2, "asc", "doc", 1, "id", 0, "doc")} :
        Start([model |-> m, model_name_or_path |-> p, data_path |-> dp],
              [exists |-> ex, lines |-> f], h, DefaultGen(2), BATCH_SIZE, d0)

Spec == Init /\ [][Next]_vars

\* every dataset file of up to MaxRecords lines with at most two lines that
\* differ from the rest, under one valid command line
DataFiles ==
    {FileOf(n, pattern, base, p1, k1, p2, k2) :
        n \in 0..MaxRecords, pattern \in {"asc", "alt"}, base \in {"doc", "docid"},
        p1 \in 0..MaxRecords, k1 \in LineKinds,
        p2 \in 0..MaxRecords, k2 \in LineKinds}

InitData ==
    \E f \in DataFiles, d0 \in {NoOutput, OldOutput} :
        Start([model |-> <<"bart-xsum">>, model_name_or_path |-> None,
               data_path |-> DataPath],
              [exists |-> TRUE, lines |-> f], TRUE, DefaultGen(MaxRecords),
              BATCH_SIZE, d0)

SpecData == InitData /\ [][Next]_vars

\* one- and two-record datasets whose decoded summaries range over every
\* string of '<', 'n', '>' and ' ' up to MaxLen characters
Alphabet == {"<", "n", ">", " "}
Hello == <<"Hello", "<", "n", ">", "world">>

InitPost ==
    \E s \in StringsUpTo(Alphabet, MaxLen), t \in {<<>>, Hello, <<"<", "n", ">", "<", "n", ">">>},
       n \in 1..2 :
        /\ n = 1 => t = <<>>
        /\ Start([model |-> <<"bart-xsum">>, model_name_or_path |-> None,
               data_path |-> DataPath],
              [exists |-> TRUE, lines |-> FileOf(n, "asc", "doc", 0, "doc", 0, "doc")],
                 TRUE, IF n = 1 THEN ("1" :> s) ELSE ("1" :> t) @@ ("2" :> s),
                 BATCH_SIZE, NoOutput)

SpecPost == InitPost /\ [][Next]_vars

\* every data path of up to MaxPath atoms over 'd', '/' and '.', under an
\* alias and under explicit identifiers
IsFilePath(p) == basename(p) \notin {<<>>, <<".">>, <<".", ".">>}

NameArgs ==
    {[model |-> <<"bart-xsum">>, model_name_or_path |-> None]}
    \cup {[model |-> None, model_name_or_path |-> m] :
            m \in (StringsUpTo({"m", "/", "."}, 2) \ {<<>>})
                  \cup {PEGASUS_XSUM_CHECKPOINT, <<".", "/", "out", "/", "ckpt">>}}

InitName ==
    \E a \in NameArgs, dp \in StringsUpTo({"d", "/", "."}, MaxPath), ex \in BOOLEAN :
        /\ ex => IsFilePath(dp)
        /\ Start([model |-> a.model, model_name_or_path |-> a.model_name_or_path,
                  data_path |-> dp],
                 [exists |-> ex, lines |-> FileOf(1, "asc", "doc", 0, "doc", 0, "doc")],
                 TRUE, DefaultGen(1), BATCH_SIZE, NoOutput)

SpecName == InitName /\ [][Next]_vars

\* every batch size up to MaxBatch over every dataset length up to
\* MaxBatchRecords
InitBatch ==
    \E b \in 1..MaxBatch, n \in 0..MaxBatchRecords, pattern \in {"asc", "alt"} :
        Start([model |-> <<"bart-xsum">>, model_name_or_path |-> None,
               data_path |-> DataPath],
              [exists |-> TRUE, lines |-> FileOf(n, pattern, "doc", 0, "doc", 0, "doc")],
              TRUE, DefaultGen(MaxBatchRecords), b, NoOutput)

SpecBatch == InitBatch /\ [][Next]_vars

\* ------------------------------------------------------------- properties
NoIO == ~modelLoaded /\ ~dataRead /\ ~fd_out /\ disk = disk0

AllParse == \A i \in 1..Len(input.lines) : input.lines[i].ok
HasDocument(i) == "document" \in DOMAIN input.lines[i].obj
ValidInput == AllParse /\ \A i \in 1..Len(input.lines) : HasDocument(i)

\* the line the run owes record i, and the first k of them
ExpectedLine(i) == postprocess_data(<<gen[input.lines[i].obj.document]>>)[1]
ExpectedUpTo(k) == [i \in 1..k |-> ExpectedLine(i)]

\* C1: on a dataset whose every line parses and has a document, the output
\* file is at every moment a prefix of the expected lines, in input order,
\* and a completed run has written exactly one line per record.
C1_OrderPreserved ==
    ValidInput =>
        /\ fd_out => /\ Len(disk.lines) <= Len(input.lines)
                     /\ disk.lines = ExpectedUpTo(Len(disk.lines))
        /\ pc = "done" => /\ disk.exists
                          /\ disk.lines = ExpectedUpTo(Len(input.lines))

C1_Witness ==
    /\ pc = "done" /\ ValidInput
    /\ Len(input.lines) > BATCH_SIZE
    /\ Len(disk.lines) = Len(input.lines)

RECURSIVE Concat(_)
Concat(ss) == IF ss = <<>> THEN <<>> ELSE Head(ss) \o Concat(Tail(ss))
CeilDiv(n, b) == (n + b - 1) \div b

\* C2: the batches handed out so far are the records handed out so far, in
\* order; every batch has 1..B records and every batch but the last exactly
\* B; when the loop ends there are ceil(N/B) batches that concatenate to the
\* whole dataset.
C2_BatchPartition ==
    /\ Concat(batches) = SubSeq(dataset, 1, pos)
    /\ \A k \in 1..Len(batches) : Len(batches[k]) \in 1..batch_size
    /\ \A k \in 1..(Len(batches) - 1) : Len(batches[k]) = batch_size
    /\ pc = "done" => /\ Len(batches) = CeilDiv(Len(dataset), batch_size)
                      /\ Concat(batches) = dataset

C2_Witness ==
    /\ pc = "done" /\ batch_size = 3 /\ Len(dataset) = 7
    /\ Len(batches) = 3 /\ Len(batches[3]) = 1

\* C3: when both --model and --model_name_or_path are given, nothing is
\* loaded, read or opened and the run never completes.
BothSet == args.model # None /\ args.model_name_or_path # None

C3_BothSetFails == BothSet => NoIO /\ pc # "done"

\* C4 as stated: a run that fails with neither option given has the error
\* of a run with both given.
NeitherSet == args.model = None /\ args.model_name_or_path = None
BothNonEmpty == Truthy(args.model) /\ Truthy(args.model_name_or_path)

C4_FailsIdentically ==
    (NeitherSet /\ pc = "failed") =>
        \A m \in ModelArgs, p \in PathArgs :
            (Truthy(m) /\ Truthy(p)) => error = ValidateError(m, p)

\* C4 as amended: with neither option given the run fails in validation
\* with ValueError 'Model is required' before any I/O; with both given and
\* non-empty it fails at the same point with the same exception type but
\* another message.
C4_SameTypeOtherMessage ==
    /\ (NeitherSet /\ pc # "validate") =>
            /\ pc = "failed" /\ NoIO
            /\ error = ErrorOf("ValueError", "Model is required")
    /\ (BothNonEmpty /\ pc # "validate") =>
            /\ pc = "failed" /\ NoIO
            /\ error.type = "ValueError"
            /\ error.msg = "Specify model or model_name_or_path but not both"
            /\ error.msg # "Model is required"

C4_Witness == NeitherSet /\ pc = "failed" /\ error.type = "ValueError"

\* C5: with --model not a key of the alias table and no identifier, the run
\* ends in validation or in the lookup with a ValueError or KeyError, and
\* nothing is loaded, read or opened.
UnknownAlias ==
    /\ args.model # None
    /\ args.model \notin DOMAIN MODEL_CHECKPOINTS
    /\ ~Truthy(args.model_name_or_path)

C5_UnknownAliasFails ==
    UnknownAlias =>
        /\ NoIO
        /\ pc \in {"validate", "resolve", "failed"}
        /\ pc = "failed" => error.type \in {"ValueError", "KeyError"}

C5_Witness == UnknownAlias /\ pc = "failed" /\ error.type = "KeyError"

\* the marker read at position i of s
MarkerAt(s, i) == i >= 1 /\ i + 2 <= Len(s) /\ SubSeq(s, i, i + 2) = MARKER
HasMarker(s) == \E i \in 1..Len(s) : MarkerAt(s, i)

\* s with the first character of every marker turned into a space, the
\* other two dropped, and every other character kept in place
Dropped == "<dropped>"
KeepChar(c) == c # Dropped
MarkersToSpaces(s) ==
    SelectSeq([i \in 1..Len(s) |->
                  IF MarkerAt(s, i) THEN " "
                  ELSE IF MarkerAt(s, i - 1) \/ MarkerAt(s, i - 2) THEN Dropped
                  ELSE s[i]],
              KeepChar)

\* C6: the processed list has the length of the decoded list; element i is
\* element i with every marker replaced by one space and every other
\* character kept in order, so it holds no marker; 'Hello<n>world' becomes
\* 'Hello world'.
C6_MarkersReplaced ==
    pc = "write" =>
        /\ Len(processed) = Len(decoded)
        /\ \A i \in 1..Len(decoded) :
            /\ ~HasMarker(processed[i])
            /\ processed[i] = MarkersToSpaces(decoded[i])
            /\ decoded[i] = Hello => processed[i] = <<"Hello", " ", "world">>

C6_Witness ==
    /\ pc = "write" /\ Len(decoded) = 2
    /\ decoded[1] = Hello /\ HasMarker(decoded[2])
    /\ processed[1] = <<"Hello", " ", "world">>

\* C7: post-processing the processed list again changes nothing.
C7_Idempotent == pc = "write" => postprocess_data(processed) = processed

C7_Witness ==
    /\ pc = "write" /\ Len(decoded) = 1
    /\ decoded[1] = <<"<", "<", "n", ">", "n", ">">>
    /\ processed[1] = <<"<", " ", "n", ">">>

\* the final component of a path and that component without its extension
NoSlash(s) == \A i \in 1..Len(s) : s[i] # "/"
FinalComponent(p) ==
    LET k == CHOOSE k \in 0..Len(p) :
                 /\ NoSlash(SubSeq(p, k + 1, Len(p)))
                 /\ k > 0 => p[k] = "/"
    IN  SubSeq(p, k + 1, Len(p))
ExtDots(c) == {i \in 1..Len(c) : c[i] = "." /\ \E j \in 1..(i - 1) : c[j] # "."}
Stem(c) ==
    IF ExtDots(c) = {} THEN c
    ELSE SubSeq(c, 1, (CHOOSE i \in ExtDots(c) : \A j \in ExtDots(c) : j <= i) - 1)
SlashesToDashes(m) == [i \in 1..Len(m) |-> IF m[i] = "/" THEN "-" ELSE m[i]]

\* C8: once the output file is open its name is label.stem.predictions,
\* the label being the alias (which resolves to its table entry) or the
\* identifier with each '/' turned into '-', the stem being the data path's
\* final component without its last extension; the name holds no '/'.
C8_FileName ==
    fd_out =>
        /\ filename =
              (IF args.model_name_or_path = None
               THEN args.model ELSE SlashesToDashes(args.model_name_or_path))
              \o <<".">> \o Stem(FinalComponent(args.data_path))
              \o <<".", "predictions">>
        /\ NoSlash(filename)
        /\ args.model = <<"bart-xsum">> =>
              model_name_or_path = <<"facebook", "/", "bart-large-xsum">>
        /\ args.model = None => model_name_or_path = args.model_name_or_path

C8_Witness ==
    /\ fd_out /\ args.model = <<"bart-xsum">>
    /\ args.data_path = <<"d", "/", "d", ".", "d">>
    /\ filename = <<"bart-xsum", ".", "d", ".", "predictions">>

\* the first record without a document, its batch and the records before it
MissingDocument ==
    AllParse /\ \E i \in 1..Len(input.lines) : ~HasDocument(i)
FirstMissing ==
    CHOOSE i \in 1..Len(input.lines) :
        ~HasDocument(i) /\ \A j \in 1..(i - 1) : HasDocument(j)
MissingBatch == ((FirstMissing - 1) \div BATCH_SIZE) + 1
BeforeMissingBatch == (MissingBatch - 1) * BATCH_SIZE
EarlierBatchesCollate ==
    \A k \in 1..(MissingBatch - 1) :
        ~CollateFails([j \in 1..BATCH_SIZE |->
                          input.lines[(k - 1) * BATCH_SIZE + j].obj])

\* C9: with every line valid JSON, a first record without a document in
\* batch b, and the batches before b collating, the run never completes and
\* never goes past batch b; the output holds only lines of the batches
\* before b, in input order; when the run has failed, the dataset was
\* loaded, the output file was opened, b batches were fetched and the file
\* holds exactly the lines of the batches before b.
C9_HaltsAtMissingDocument ==
    (MissingDocument /\ EarlierBatchesCollate) =>
        /\ pc # "done"
        /\ Len(batches) <= MissingBatch
        /\ fd_out => /\ Len(disk.lines) <= BeforeMissingBatch
                     /\ disk.lines = ExpectedUpTo(Len(disk.lines))
        /\ pc = "failed" => /\ dataRead /\ fd_out /\ disk.exists
                            /\ error.type = "KeyError"
                            /\ Len(batches) = MissingBatch
                            /\ disk.lines = ExpectedUpTo(BeforeMissingBatch)

C9_Witness ==
    /\ MissingDocument /\ EarlierBatchesCollate
    /\ pc = "failed" /\ MissingBatch = 2
    /\ disk0 = OldOutput
    /\ Len(disk.lines) = BATCH_SIZE

\* C10: with a malformed line anywhere in the file, the output file is never
\* opened and stays as it was, no batch is fetched, tokenized or generated,
\* and the run fails with a JSON error after the model is loaded.
HasBadLine == \E i \in 1..Len(input.lines) : ~input.lines[i].ok

C10_BadLineHaltsAtLoad ==
    HasBadLine =>
        /\ ~fd_out /\ disk = disk0
        /\ batches = <<>> /\ batch = <<>> /\ decoded = <<>>
        /\ pc \in {"validate", "resolve", "load", "dataset", "failed"}
        /\ pc = "failed" => /\ error.type = "JSONDecodeError"
                            /\ modelLoaded /\ dataRead

C10_Witness ==
    /\ HasBadLine /\ pc = "failed"
    /\ disk0 = OldOutput
    /\ Len(input.lines) > BATCH_SIZE
    /\ ~input.lines[Len(input.lines)].ok
    /\ \A i \in 1..(Len(input.lines) - 1) : input.lines[i].ok
====
